---------------------------- MODULE Spec2Model ----------------------------
(***************************************************************************)
(* Model of src/main.py: the document loaders, the DataExtractor walkers   *)
(* (PDF, DOCX, PPTX), the heading classifier, the flat-file sink           *)
(* (FileStorage), the relational sink (SQLStorage) and the driver main().  *)
(*                                                                         *)
(* Strings are sequences of one-character strings, so that endswith,       *)
(* strip, substring search and line counting are computed, not assumed.    *)
(* Font sizes are integers in tenths of a point (12.0 pt is 120).          *)
(* An optional value (Python None / missing key) is a sequence of length   *)
(* at most one: <<>> is None, <<x>> is x.                                  *)
(***************************************************************************)
EXTENDS Integers, Sequences, FiniteSets, TLC

(***************************************************************************)
(* Bounds of the model.                                                    *)
(***************************************************************************)
MaxUnits == 2
MaxRuns == 2
MaxSaves == 2

(***************************************************************************)
(* String helpers (Python str methods used by main.py).                    *)
(***************************************************************************)
NL == "\n"

IsSpace(c) == c \in {" ", NL, "\t"}

RECURSIVE lstrip(_)
lstrip(s) == IF s = <<>> THEN <<>>
             ELSE IF IsSpace(Head(s)) THEN lstrip(Tail(s)) ELSE s

RECURSIVE rstrip(_)
rstrip(s) == IF s = <<>> THEN <<>>
             ELSE IF IsSpace(s[Len(s)]) THEN rstrip(SubSeq(s, 1, Len(s) - 1)) ELSE s

strip(s) == rstrip(lstrip(s))

endswith(s, suffix) ==
    /\ Len(s) >= Len(suffix)
    /\ SubSeq(s, Len(s) - Len(suffix) + 1, Len(s)) = suffix

\* Python's `sub in s` on strings
Contains(s, sub) ==
    \E i \in 0..(Len(s) - Len(sub)) : SubSeq(s, i + 1, i + Len(sub)) = sub

\* F(1) \o F(2) \o ... \o F(n): the list built by a for loop appending F(i)
RECURSIVE ConcatTo(_, _)
ConcatTo(F(_), n) == IF n = 0 THEN <<>> ELSE ConcatTo(F, n - 1) \o F(n)

\* number of elements of a sequence satisfying a test
RECURSIVE CountIf(_, _)
CountIf(P(_), s) == IF s = <<>> THEN 0
                    ELSE (IF P(Head(s)) THEN 1 ELSE 0) + CountIf(P, Tail(s))

\* all sequences over S of length at most n
SeqsUpTo(S, n) == UNION {[1..k -> S] : k \in 0..n}

\* x if present, else the default d (dict.get(key, d), `x if x else d`)
OrElse(opt, d) == IF opt = <<>> THEN d ELSE opt[1]

Suffix_pdf == <<".", "p", "d", "f">>
Suffix_docx == <<".", "d", "o", "c", "x">>
Suffix_pptx == <<".", "p", "p", "t", "x">>

(***************************************************************************)
(* FileLoader and its three concrete classes (main.py 18-56).              *)
(***************************************************************************)
LoaderClasses == {"PDFLoader", "DOCXLoader", "PPTLoader"}

ExpectedSuffix(cls) ==
    CASE cls = "PDFLoader" -> Suffix_pdf
      [] cls = "DOCXLoader" -> Suffix_docx
      [] cls = "PPTLoader" -> Suffix_pptx

\* a slip: `suffix in path` instead of path.endswith(suffix)
validate_file_in(cls, file_path) == Contains(file_path, ExpectedSuffix(cls))

\* validate_file: TRUE when no ValueError is raised
validate_file(cls, file_path) == endswith(file_path, ExpectedSuffix(cls))

\* FileLoader.__init__: stores the path, then validates it.  The result is
\* the outcome of the construction: the exception raised ("none" when the
\* object is returned), the file_path attribute of the object, and the
\* number of load_file calls made by the constructor.
FileLoader_init(cls, file_path) ==
    [raised     |-> IF validate_file(cls, file_path) THEN "none" ELSE "ValueError",
     file_path  |-> file_path,
     load_calls |-> 0]

(***************************************************************************)
(* Heading classifier (main.py 78-83).  A raw font size is a record:       *)
(*   [t |-> "num", v |-> n]     a number (int or float), n tenths of a pt  *)
(*   [t |-> "numstr", v |-> n]  a string that float() parses to n/10       *)
(*   [t |-> "badstr", v |-> 0]  a string float() rejects (ValueError)      *)
(*   [t |-> "none", v |-> 0]    None (TypeError)                           *)
(***************************************************************************)
HeadingThreshold == 120

Num(n) == [t |-> "num", v |-> n]

\* float(font_size) with the except clause: 0 when the coercion fails
ToFloat(font_size) ==
    IF font_size.t \in {"num", "numstr"} THEN font_size.v ELSE 0

\* a slip: the threshold itself counted as a heading size
is_heading_ge(font_size, bold) == bold \/ ToFloat(font_size) >= HeadingThreshold

is_heading(font_size, bold) == bold \/ ToFloat(font_size) > HeadingThreshold

DataType(font_size, bold) == IF is_heading(font_size, bold) THEN "heading" ELSE "text"


(***************************************************************************)
(* Native object models handed to the walkers by the parsing libraries.    *)
(*   PDF   [kind, pages]: page = [blocks, annots, tables, images]          *)
(*         block = [type, lines], line = [spans],                          *)
(*         span = [text, font, size] (each optional: a missing dict key)   *)
(*         annots = optional list of [uri] (uri optional)                  *)
(*   DOCX  [kind, paragraphs, rels, tables]: paragraph = [runs],           *)
(*         run = [text, name, size, bold, italic],                         *)
(*         rel = [reltype, target_ref, blob]                               *)
(*   PPTX  [kind, slides]: slide = [shapes],                               *)
(*         shape = [text_frame, shape_type, image, has_table, table]       *)
(*         text_frame = optional list of paragraphs [runs],                *)
(*         run = [text, name, size, bold, italic, hyperlink]               *)
(* A table grid is a sequence of rows, a row a sequence of cell texts.     *)
(* An image is [ok, size]: ok is whether PIL's Image.open decodes its      *)
(* bytes.                                                                  *)
(***************************************************************************)
Default == <<"D", "e", "f", "a", "u", "l", "t">>
Bold == <<"B", "o", "l", "d">>
Str_image == <<"i", "m", "a", "g", "e">>
Str_hyperlink == <<"h", "y", "p", "e", "r", "l", "i", "n", "k">>
PictureShapeType == 13

\* A text record: the 7-tuple appended by extract_text
TextRecord(page, text, font_name, font_size, bold, italic) ==
    [page |-> page, text |-> text, data_type |-> DataType(font_size, bold),
     font_name |-> font_name, font_size |-> font_size, bold |-> bold,
     italic |-> italic]

(***************************************************************************)
(* DataExtractor.extract_text (main.py 75-141)                             *)
(***************************************************************************)
PdfSpanRecords(i, span) ==
    LET text == strip(OrElse(span.text, <<>>))
        font_name == OrElse(span.font, Default)
        font_size == OrElse(span.size, Num(0))
        bold == Contains(font_name, Bold)
    IN  IF text = <<>> THEN <<>>
        ELSE <<TextRecord(i, text, font_name, font_size, bold, FALSE)>>

PdfLineRecords(i, line) ==
    ConcatTo(LAMBDA k : PdfSpanRecords(i, line.spans[k]), Len(line.spans))

PdfBlockRecords(i, block) ==
    IF block.type = 0
    THEN ConcatTo(LAMBDA k : PdfLineRecords(i, block.lines[k]), Len(block.lines))
    ELSE <<>>

PdfPageRecords(i, page) ==
    ConcatTo(LAMBDA k : PdfBlockRecords(i, page.blocks[k]), Len(page.blocks))

\* truthiness of an optional string (None and "" are falsy) and of an
\* optional number (None and 0 are falsy)
TruthyStr(opt) == opt # <<>> /\ opt[1] # <<>>
TruthyNum(opt) == opt # <<>> /\ opt[1] # 0

\* a slip: the `if not text: continue` left out, blank runs emitted too
RunRecords_keepBlank(i, run) ==
    LET text == strip(run.text)
        font_name == IF TruthyStr(run.name) THEN run.name[1] ELSE Default
        font_size == IF TruthyNum(run.size) THEN Num(run.size[1]) ELSE Num(0)
        bold == OrElse(run.bold, FALSE)
        italic == OrElse(run.italic, FALSE)
    IN  <<TextRecord(i, text, font_name, font_size, bold, italic)>>

\* a run of python-docx / python-pptx: the same defaulting in both walkers
RunRecords(i, run) ==
    LET text == strip(run.text)
        font_name == IF TruthyStr(run.name) THEN run.name[1] ELSE Default
        font_size == IF TruthyNum(run.size) THEN Num(run.size[1]) ELSE Num(0)
        bold == OrElse(run.bold, FALSE)
        italic == OrElse(run.italic, FALSE)
    IN  IF text = <<>> THEN <<>>
        ELSE <<TextRecord(i, text, font_name, font_size, bold, italic)>>

ParagraphRecords(i, para) ==
    ConcatTo(LAMBDA k : RunRecords(i, para.runs[k]), Len(para.runs))

PptxShapeRecords(i, shape) ==
    IF shape.text_frame # <<>>
    THEN ConcatTo(LAMBDA k : ParagraphRecords(i, shape.text_frame[1][k]),
                  Len(shape.text_frame[1]))
    ELSE <<>>

PptxSlideRecords(i, slide) ==
    ConcatTo(LAMBDA k : PptxShapeRecords(i, slide.shapes[k]), Len(slide.shapes))

\* file_path is the extractor's path, doc the native document behind it
extract_text(file_path, doc) ==
    IF endswith(file_path, Suffix_pdf)
    THEN ConcatTo(LAMBDA i : PdfPageRecords(i, doc.pages[i]), Len(doc.pages))
    ELSE IF endswith(file_path, Suffix_docx)
    THEN ConcatTo(LAMBDA i : ParagraphRecords(1, doc.paragraphs[i]), Len(doc.paragraphs))
    ELSE IF endswith(file_path, Suffix_pptx)
    THEN ConcatTo(LAMBDA i : PptxSlideRecords(i, doc.slides[i]), Len(doc.slides))
    ELSE <<>>

(***************************************************************************)
(* DataExtractor.extract_links (main.py 142-169)                           *)
(***************************************************************************)
LinkRecord(page, url) == [page |-> page, url |-> url]

PdfAnnotLinks(i, annot) ==
    IF TruthyStr(annot.uri) THEN <<LinkRecord(i, annot.uri[1])>> ELSE <<>>

PdfPageLinks(i, page) ==
    IF page.annots # <<>> /\ page.annots[1] # <<>>
    THEN ConcatTo(LAMBDA k : PdfAnnotLinks(i, page.annots[1][k]), Len(page.annots[1]))
    ELSE <<>>

\* para.text of python-docx: the runs' texts joined
RECURSIVE JoinRuns(_)
JoinRuns(runs) == IF runs = <<>> THEN <<>> ELSE Head(runs).text \o JoinRuns(Tail(runs))

\* a slip: the test of the relationship type left out
DocxRelLinks_anyType(para, rel) ==
    IF /\ JoinRuns(para.runs) # <<>>
       /\ Contains(JoinRuns(para.runs), rel.target_ref)
    THEN <<LinkRecord(1, rel.target_ref)>>
    ELSE <<>>

DocxRelLinks(para, rel) ==
    IF Contains(rel.reltype, Str_hyperlink)
       /\ JoinRuns(para.runs) # <<>>
       /\ Contains(JoinRuns(para.runs), rel.target_ref)
    THEN <<LinkRecord(1, rel.target_ref)>>
    ELSE <<>>

DocxParaLinks(para, rels) ==
    ConcatTo(LAMBDA k : DocxRelLinks(para, rels[k]), Len(rels))

PptxRunLinks(i, run) ==
    IF TruthyStr(run.hyperlink) THEN <<LinkRecord(i, run.hyperlink[1])>> ELSE <<>>

PptxParaLinks(i, para) ==
    ConcatTo(LAMBDA k : PptxRunLinks(i, para.runs[k]), Len(para.runs))

PptxShapeLinks(i, shape) ==
    IF shape.text_frame # <<>>
    THEN ConcatTo(LAMBDA k : PptxParaLinks(i, shape.text_frame[1][k]),
                  Len(shape.text_frame[1]))
    ELSE <<>>

PptxSlideLinks(i, slide) ==
    ConcatTo(LAMBDA k : PptxShapeLinks(i, slide.shapes[k]), Len(slide.shapes))

\* dispatch is on the type of the loaded object (doc.kind)
extract_links(doc) ==
    IF doc.kind = "pdf"
    THEN ConcatTo(LAMBDA i : PdfPageLinks(i, doc.pages[i]), Len(doc.pages))
    ELSE IF doc.kind = "docx"
    THEN ConcatTo(LAMBDA i : DocxParaLinks(doc.paragraphs[i], doc.rels), Len(doc.paragraphs))
    ELSE IF doc.kind = "pptx"
    THEN ConcatTo(LAMBDA i : PptxSlideLinks(i, doc.slides[i]), Len(doc.slides))
    ELSE <<>>

(***************************************************************************)
(* DataExtractor.extract_tables (main.py 201-222)                          *)
(***************************************************************************)
\* a slip: the column count taken from the last row of the grid
TableRecord_lastRow(page, table) ==
    [page |-> page, rows |-> Len(table),
     cols |-> IF table # <<>> THEN Len(table[Len(table)]) ELSE 0, table |-> table]

TableRecord(page, table) ==
    [page |-> page, rows |-> Len(table),
     cols |-> IF table # <<>> THEN Len(table[1]) ELSE 0, table |-> table]

\* [[cell.text.strip() for cell in row.cells] for row in table.rows]
StripGrid(table) ==
    [r \in 1..Len(table) |-> [c \in 1..Len(table[r]) |-> strip(table[r][c])]]

PdfPageTables(i, page) ==
    ConcatTo(LAMBDA k : <<TableRecord(i, page.tables[k])>>, Len(page.tables))

PptxShapeTables(i, shape) ==
    IF shape.has_table THEN <<TableRecord(i, StripGrid(shape.table))>> ELSE <<>>

PptxSlideTables(i, slide) ==
    ConcatTo(LAMBDA k : PptxShapeTables(i, slide.shapes[k]), Len(slide.shapes))

extract_tables(doc) ==
    IF doc.kind = "pdf"
    THEN ConcatTo(LAMBDA i : PdfPageTables(i, doc.pages[i]), Len(doc.pages))
    ELSE IF doc.kind = "docx"
    THEN ConcatTo(LAMBDA i : <<TableRecord(i, StripGrid(doc.tables[i]))>>, Len(doc.tables))
    ELSE IF doc.kind = "pptx"
    THEN ConcatTo(LAMBDA i : PptxSlideTables(i, doc.slides[i]), Len(doc.slides))
    ELSE <<>>

(***************************************************************************)
(* DataExtractor.extract_images (main.py 171-199).  The walk appends one   *)
(* record per image until Image.open raises on undecodable bytes; the      *)
(* exception leaves the function, so the list built so far is lost.        *)
(* ImageWalk is the sequence of images in traversal order, each with its   *)
(* location; extract_images is the outcome of the call.                    *)
(***************************************************************************)
\* one step of the walk: the location, the native image and its identity
\* (unit index, index within the unit)
ImageRef(page, image, ident) == [page |-> page, image |-> image, ident |-> ident]

\* the 4-tuple appended after Image.open succeeded
ImageRecord(ref) ==
    [page |-> ref.page, format |-> "PNG", size |-> ref.image.size, img |-> ref.ident]

PdfPageImages(i, page) ==
    ConcatTo(LAMBDA k : <<ImageRef(i, page.images[k], <<i, k>>)>>, Len(page.images))

DocxRelImages(i, rel) ==
    IF Contains(rel.target_ref, Str_image)
    THEN <<ImageRef(i, rel.blob, <<i, 1>>)>>
    ELSE <<>>

PptxShapeImages(i, k, shape) ==
    IF shape.shape_type = PictureShapeType
    THEN <<ImageRef(i, shape.image, <<i, k>>)>>
    ELSE <<>>

PptxSlideImages(i, slide) ==
    ConcatTo(LAMBDA k : PptxShapeImages(i, k, slide.shapes[k]), Len(slide.shapes))

ImageWalk(file_path, doc) ==
    IF endswith(file_path, Suffix_pdf)
    THEN ConcatTo(LAMBDA i : PdfPageImages(i, doc.pages[i]), Len(doc.pages))
    ELSE IF endswith(file_path, Suffix_docx)
    THEN ConcatTo(LAMBDA i : DocxRelImages(i, doc.rels[i]), Len(doc.rels))
    ELSE IF endswith(file_path, Suffix_pptx)
    THEN ConcatTo(LAMBDA i : PptxSlideImages(i, doc.slides[i]), Len(doc.slides))
    ELSE <<>>

\* a different policy: an undecodable image skipped, the walk going on
extract_images_skipBad(file_path, doc) ==
    LET walk == SelectSeq(ImageWalk(file_path, doc), LAMBDA ref : ref.image.ok)
    IN  [raised |-> "none",
         images |-> [k \in 1..Len(walk) |-> ImageRecord(walk[k])]]

extract_images(file_path, doc) ==
    LET walk == ImageWalk(file_path, doc)
    IN  IF \E k \in 1..Len(walk) : ~walk[k].image.ok
        THEN [raised |-> "UnidentifiedImageError", images |-> <<>>]
        ELSE [raised |-> "none",
              images |-> [k \in 1..Len(walk) |-> ImageRecord(walk[k])]]

(***************************************************************************)
(* Sample documents: the bounded input sets.                               *)
(***************************************************************************)
U == <<"u">>                      \* a hyperlink target URI
Cell == <<"c">>
Grid == <<<<Cell, <<" ", "c">>>>>>   \* a 1x2 table
Regular == <<"R">>
RelHyperlink == <<"r", "/">> \o Str_hyperlink
RelImage == <<"r", "/">> \o Str_image
MediaImage == <<"m", "/">> \o Str_image

Span(text, font, size) == [text |-> text, font |-> font, size |-> size]
TextBlock(spans) == [type |-> 0, lines |-> <<[spans |-> spans]>>]
Image(ok) == [ok |-> ok, size |-> <<1, 1>>]
Run(text, size, bold, hyperlink) ==
    [text |-> text, name |-> <<Regular>>, size |-> size, bold |-> bold,
     italic |-> <<>>, hyperlink |-> hyperlink]
Para(runs) == [runs |-> runs]
Rel(reltype, target_ref, ok) ==
    [reltype |-> reltype, target_ref |-> target_ref, blob |-> Image(ok)]
TextShape(paragraphs) ==
    [text_frame |-> <<paragraphs>>, shape_type |-> 17, image |-> Image(TRUE),
     has_table |-> FALSE, table |-> <<>>]
TableShape(table) ==
    [text_frame |-> <<>>, shape_type |-> 19, image |-> Image(TRUE),
     has_table |-> TRUE, table |-> table]
PictureShape(ok) ==
    [text_frame |-> <<>>, shape_type |-> PictureShapeType, image |-> Image(ok),
     has_table |-> FALSE, table |-> <<>>]

PdfPage(blocks, annots, tables, images) ==
    [blocks |-> blocks, annots |-> annots, tables |-> tables, images |-> images]

\* pages of the PDF documents the driver is run on
RunPdfPages ==
    { PdfPage(<<>>, <<>>, <<>>, <<>>),
      PdfPage(<<TextBlock(<<Span(<<<<"a">>>>, <<Regular>>, <<Num(100)>>),
                            Span(<<<<" ">>>>, <<Regular>>, <<Num(100)>>)>>)>>,
              <<<<[uri |-> <<U>>], [uri |-> <<>>]>>>>, <<Grid>>, <<Image(TRUE)>>),
      PdfPage(<<TextBlock(<<Span(<<<<"a">>>>, <<Bold>>, <<Num(140)>>)>>)>>,
              <<>>, <<>>, <<Image(TRUE), Image(TRUE)>>),
      PdfPage(<<TextBlock(<<Span(<<<<"a">>>>, <<>>, <<>>)>>)>>,
              <<>>, <<>>, <<Image(FALSE)>>) }

RunPdfDocs ==
    {[kind |-> "pdf", pages |-> p] : p \in SeqsUpTo(RunPdfPages, MaxUnits) \ {<<>>}}

\* python-docx renders a line break inside a run (<w:br/>) as "\n" in run.text
RunParagraphs ==
    { Para(<<>>),
      Para(<<Run(<<"a", NL, "a">>, <<100>>, <<TRUE>>, <<>>)>>),
      Para(<<Run(<<"s", "e", "e", " ">>, <<>>, <<>>, <<>>),
             Run(U, <<130>>, <<FALSE>>, <<>>)>>) }

RunRels ==
    { <<>>,
      <<Rel(RelHyperlink, U, TRUE), Rel(RelImage, MediaImage, TRUE)>>,
      <<Rel(RelImage, MediaImage, TRUE), Rel(RelImage, MediaImage, TRUE)>>,
      <<Rel(RelImage, MediaImage, FALSE)>> }

RunDocxDocs ==
    {[kind |-> "docx", paragraphs |-> p, rels |-> r, tables |-> t] :
        p \in SeqsUpTo(RunParagraphs, MaxUnits), r \in RunRels, t \in {<<>>, <<Grid>>}}

RunSlides ==
    { [shapes |-> <<>>],
      [shapes |-> <<TextShape(<<Para(<<Run(<<"a">>, <<100>>, <<>>, <<U>>)>>)>>),
                    TableShape(Grid)>>],
      [shapes |-> <<PictureShape(TRUE), PictureShape(TRUE)>>],
      [shapes |-> <<TextShape(<<Para(<<Run(<<"a">>, <<180>>, <<>>, <<>>)>>)>>),
                    PictureShape(FALSE)>>] }

RunPptxDocs ==
    {[kind |-> "pptx", slides |-> sl] : sl \in SeqsUpTo(RunSlides, MaxUnits) \ {<<>>}}

(***************************************************************************)
(* The driver main() (main.py 345-358).  The three documents are slots     *)
(* 1 (pdf), 2 (doc) and 3 (ppt), in the order of the persisting loop.      *)
(***************************************************************************)
Slots == {1, 2, 3}
Sinks == {"file", "sql"}
Walkers == {"text", "links", "tables", "images"}

LoaderClass(d) == IF d = 1 THEN "PDFLoader" ELSE IF d = 2 THEN "DOCXLoader" ELSE "PPTLoader"

\* the paths main() passes to the loaders (directory part left out)
MainPath(d) == <<"t">> \o ExpectedSuffix(LoaderClass(d))

LoaderOrder == <<1, 2, 3>>       \* main.py 346-348
ExtractorOrder == <<3, 1, 2>>    \* main.py 349-351
LoopOrder == <<1, 2, 3>>         \* main.py 353

\* the document every slot holds unless the run varies it
SampleDoc(d) ==
    IF d = 1
    THEN [kind |-> "pdf",
          pages |-> <<PdfPage(<<TextBlock(<<Span(<<<<"a">>>>, <<Regular>>, <<Num(100)>>)>>)>>,
                              <<<<[uri |-> <<U>>]>>>>, <<Grid>>, <<Image(TRUE)>>)>>]
    ELSE IF d = 2
    THEN [kind |-> "docx",
          paragraphs |-> <<Para(<<Run(U, <<100>>, <<>>, <<>>)>>)>>,
          rels |-> <<Rel(RelHyperlink, U, TRUE), Rel(RelImage, MediaImage, TRUE)>>,
          tables |-> <<Grid>>]
    ELSE [kind |-> "pptx",
          slides |-> <<[shapes |-> <<TextShape(<<Para(<<Run(<<"a">>, <<100>>, <<>>, <<U>>)>>)>>),
                                     TableShape(Grid), PictureShape(TRUE)>>]>>]

RunDocs(d) == IF d = 1 THEN RunPdfDocs ELSE IF d = 2 THEN RunDocxDocs ELSE RunPptxDocs

VARIABLES
    pc,        \* where main() is: the statement about to run
    idx,       \* position in the order of the current phase of main()
    docs,      \* slot -> the native document stored at the slot's path
    loaders,   \* slot -> the loader object (built, file_path)
    extractors,\* slot -> whether DataExtractor was constructed for it
    handles,   \* native handles currently open: [slot, by, n]
    opens,     \* slot -> number of native opens made so far for its file
    calls,     \* <<slot, sink, walker>> -> walker invocations made by the sink
    fs,        \* slot -> the slot's output directory: [exists, files],
               \* files a function from file name to content
    dbLog,     \* connector calls made so far, in order
    db,        \* the database server: databases, tables, committed rows
    conn,      \* the connection of the running save_data and its uncommitted rows
    nconn,     \* number of connections made so far
    todo,      \* records the running for loop has still to go through
    done,      \* slot -> the sinks whose save_data returned
    err,       \* the exception that left main(), "none" while there is none
    call       \* the last direct call of a pure function: [op, args, ret]

mainVars == <<pc, idx, docs, loaders, extractors, handles, opens, calls, fs,
              dbLog, db, conn, nconn, todo, done, err>>
vars == <<pc, idx, docs, loaders, extractors, handles, opens, calls, fs,
          dbLog, db, conn, nconn, todo, done, err, call>>

Database == "document_data"      \* main.py 357

EmptyDir == [exists |-> FALSE, files |-> <<>>]
NoConn == [id |-> 0, open |-> FALSE, inserted |-> <<>>]
NoCall == [op |-> "none", args |-> <<>>, ret |-> <<>>]

InitMain(documents) ==
    /\ pc = "construct_loader"
    /\ idx = 1
    /\ docs = documents
    /\ loaders = [d \in Slots |-> [built |-> FALSE, file_path |-> <<>>]]
    /\ extractors = [d \in Slots |-> FALSE]
    /\ handles = {}
    /\ opens = [d \in Slots |-> 0]
    /\ calls = [k \in Slots \X Sinks \X Walkers |-> 0]
    /\ fs = [d \in Slots |-> EmptyDir]
    /\ dbLog = <<>>
    /\ db = [databases |-> {}, tables |-> {}, rows |-> <<>>]
    /\ conn = NoConn
    /\ nconn = 0
    /\ todo = <<>>
    /\ done = [d \in Slots |-> {}]
    /\ err = "none"

\* one run of main(): one slot holds any document of the bounded set, the
\* other two hold the sample document
Init ==
    /\ \E v \in Slots : \E x \in RunDocs(v) :
          InitMain([d \in Slots |-> IF d = v THEN x ELSE SampleDoc(d)])
    /\ call = NoCall

\* the slot the statement at pc is about
Slot ==
    IF pc = "construct_loader" THEN LoaderOrder[idx]
    ELSE IF pc = "construct_extractor" THEN ExtractorOrder[idx]
    ELSE LoopOrder[idx]

Raise(e) == pc' = "raised" /\ err' = e

Bump(d, sink, walker) == [calls EXCEPT ![<<d, sink, walker>>] = @ + 1]

\* a connector call: what is the data_type of the row of an INSERT
Event(op, ok) == [conn |-> 0, op |-> op, ok |-> ok, slot |-> Slot, what |-> ""]
Insert(id, row, ok) == [conn |-> id, op |-> "INSERT", ok |-> ok, slot |-> Slot,
                        what |-> row.data_type]
On(id, ev) == [ev EXCEPT !.conn = id]

\* main.py 346-348: PDFLoader(...), DOCXLoader(...), PPTLoader(...)
ConstructLoader ==
    /\ pc = "construct_loader"
    /\ LET d == Slot
           r == FileLoader_init(LoaderClass(d), MainPath(d))
       IN  IF r.raised # "none"
           THEN /\ Raise(r.raised)
                /\ UNCHANGED <<idx, loaders, opens, handles>>
           ELSE /\ loaders' = [loaders EXCEPT ![d] = [built |-> TRUE, file_path |-> r.file_path]]
                /\ opens' = [opens EXCEPT ![d] = @ + r.load_calls]
                /\ handles' = handles
                /\ IF idx < Len(LoaderOrder)
                   THEN idx' = idx + 1 /\ pc' = pc
                   ELSE idx' = 1 /\ pc' = "construct_extractor"
                /\ err' = err
    /\ UNCHANGED <<docs, extractors, calls, fs, dbLog, db, conn, nconn, todo, done, call>>

\* a different design: the constructor keeps the loader and opens nothing
ConstructExtractor_lazy ==
    /\ pc = "construct_extractor"
    /\ loaders[Slot].built
    /\ extractors' = [extractors EXCEPT ![Slot] = TRUE]
    /\ IF idx < Len(ExtractorOrder)
       THEN idx' = idx + 1 /\ pc' = pc
       ELSE idx' = 1 /\ pc' = "file_text"
    /\ UNCHANGED <<docs, loaders, handles, opens, calls, fs, dbLog, db, conn, nconn,
                   todo, done, err, call>>

\* DataExtractor.__init__ (main.py 61-65): loader.load_file() opens the
\* native document (pdfplumber.open / docx.Document / pptx.Presentation),
\* which fails when the file is missing or unreadable.
ConstructExtractor ==
    /\ pc = "construct_extractor"
    /\ loaders[Slot].built
    /\ \E readable \in BOOLEAN :
         LET d == Slot
         IN  IF ~readable
             THEN /\ Raise("OSError")
                  /\ UNCHANGED <<idx, extractors, handles, opens>>
             ELSE /\ extractors' = [extractors EXCEPT ![d] = TRUE]
                  /\ opens' = [opens EXCEPT ![d] = @ + 1]
                  /\ handles' = handles \cup {[slot |-> d, by |-> "load_file", n |-> opens[d] + 1]}
                  /\ IF idx < Len(ExtractorOrder)
                     THEN idx' = idx + 1 /\ pc' = pc
                     ELSE idx' = 1 /\ pc' = "file_text"
                  /\ err' = err
    /\ UNCHANGED <<docs, loaders, calls, fs, dbLog, db, conn, nconn, todo, done, call>>

(***************************************************************************)
(* fitz.open(self.file_path) in extract_text and extract_images (main.py   *)
(* 87, 175).  The code never closes the document: it is released only if   *)
(* the garbage collector finalises the local `doc` when the walker         *)
(* returns, which the code does not control (kept is that choice).         *)
(***************************************************************************)
UsesFitz(d) == endswith(loaders[d].file_path, Suffix_pdf)

KeptChoices(d) == IF UsesFitz(d) THEN BOOLEAN ELSE {FALSE}

\* a different design: the walkers using the document the constructor
\* opened, no further open
FitzOpen_noReopen(d, by, kept) == UNCHANGED <<opens, handles>>

FitzOpen(d, by, kept) ==
    IF UsesFitz(d)
    THEN /\ opens' = [opens EXCEPT ![d] = @ + 1]
         /\ handles' = IF kept
                       THEN handles \cup {[slot |-> d, by |-> by, n |-> opens[d] + 1]}
                       ELSE handles
    ELSE UNCHANGED <<opens, handles>>

(***************************************************************************)
(* FileStorage.save_data (main.py 235-256)                                 *)
(***************************************************************************)
PyBool(b) == IF b THEN "True" ELSE "False"

\* the f-string written for one text record; a font size prints as its
\* number of tenths
FormatLine(r) ==
    <<"Page ", ToString(r.page), " - ", r.data_type, ": ">> \o r.text
    \o <<" (Font: ">> \o r.font_name
    \o <<", Size: ", ToString(r.font_size.v), ", Bold: ", PyBool(r.bold),
         ", Italic: ", PyBool(r.italic), ")", NL>>

\* what the loop of main.py 240-244 writes to text_data.txt
TextFile(records) == ConcatTo(LAMBDA k : FormatLine(records[k]), Len(records))

\* rows written to tables.csv for one table: the header row, then the grid
CsvRows(t) ==
    << <<<<"Page ", ToString(t.page), " (", ToString(t.rows), "x", ToString(t.cols), ")">>>> >>
    \o t.table

TablesFile(tables) == ConcatTo(LAMBDA k : CsvRows(tables[k]), Len(tables))

TextFileName == <<"text_data.txt">>
TablesFileName == <<"tables.csv">>

\* f"image_{i}.png", i being the first field of the image record
ImageName(r) == <<"image_", ToString(r.page), ".png">>

\* os.makedirs(output_dir, exist_ok=True)
MakeDirs(dir) == [dir EXCEPT !.exists = TRUE]

\* open(path, "w") ... write ... close, and img.save(path): the file is
\* created, or replaced when a file of that name exists
WriteFile(dir, name, content) ==
    [dir EXCEPT !.files = [n \in (DOMAIN @) \cup {name} |->
                              IF n = name THEN content ELSE @[n]]]

\* img.save(image_path, img_format): content is the saved bitmap
SaveImage(dir, r) == WriteFile(dir, ImageName(r), r.img)

\* names of the image files of a directory
ImageFiles(dir) == {n \in DOMAIN dir.files : n[1] = "image_"}

\* number of lines of a text file
LineCount(content) == CountIf(LAMBDA c : c = NL, content)

\* a slip: the flat-file sink also writing one line per link, as the
\* relational sink stores one row per link
FileSaveText_withLinks ==
    /\ pc = "file_text"
    /\ extractors[Slot]
    /\ \E kept \in KeptChoices(Slot) :
         LET d == Slot
             records == extract_text(loaders[d].file_path, docs[d])
             links == extract_links(docs[d])
         IN  /\ FitzOpen(d, "extract_text", kept)
             /\ calls' = [calls EXCEPT ![<<d, "file", "text">>] = @ + 1,
                                       ![<<d, "file", "links">>] = @ + 1]
             /\ fs' = [fs EXCEPT ![d] = WriteFile(MakeDirs(@), TextFileName,
                                    TextFile(records)
                                    \o ConcatTo(LAMBDA k : <<"Page ", ToString(links[k].page),
                                                             " - link: ">> \o links[k].url
                                                           \o <<NL>>, Len(links)))]
    /\ pc' = "file_tables"
    /\ UNCHANGED <<idx, docs, loaders, extractors, dbLog, db, conn, nconn, todo, done, err, call>>

\* main.py 236-244: makedirs, then text_data.txt.  open(..., "w") creates
\* the file before extract_text is called inside the with block; when the
\* walker raises (failed), the file is left empty and the error leaves
\* save_data.
FileSaveText ==
    /\ pc = "file_text"
    /\ extractors[Slot]
    /\ \E kept \in KeptChoices(Slot), failed \in BOOLEAN :
         LET d == Slot
             records == extract_text(loaders[d].file_path, docs[d])
         IN  /\ FitzOpen(d, "extract_text", kept)
             /\ calls' = Bump(d, "file", "text")
             /\ IF failed
                THEN /\ fs' = [fs EXCEPT ![d] = WriteFile(MakeDirs(@), TextFileName, <<>>)]
                     /\ Raise("OSError")
                ELSE /\ fs' = [fs EXCEPT ![d] = WriteFile(MakeDirs(@), TextFileName,
                                                          TextFile(records))]
                     /\ pc' = "file_tables"
                     /\ err' = err
    /\ UNCHANGED <<idx, docs, loaders, extractors, dbLog, db, conn, nconn, todo, done, call>>

\* a different design: a failing step taking back what the earlier steps
\* of the call wrote
FileSaveTables_rollback ==
    /\ pc = "file_tables"
    /\ \E failed \in BOOLEAN :
         LET d == Slot
             tables == extract_tables(docs[d])
         IN  /\ calls' = Bump(d, "file", "tables")
             /\ IF failed
                THEN /\ fs' = [fs EXCEPT ![d] = EmptyDir]
                     /\ Raise("OSError")
                ELSE /\ fs' = [fs EXCEPT ![d] = WriteFile(@, TablesFileName, TablesFile(tables))]
                     /\ pc' = "file_images"
                     /\ err' = err
    /\ UNCHANGED <<idx, docs, loaders, extractors, handles, opens, dbLog, db, conn,
                   nconn, todo, done, call>>

\* main.py 247-251: tables.csv.  The file is created before extract_tables
\* is called; when the extraction or a write raises (failed), the file holds
\* the first n tables and the error leaves save_data.
FileSaveTables ==
    /\ pc = "file_tables"
    /\ \E failed \in BOOLEAN :
         LET d == Slot
             tables == extract_tables(docs[d])
         IN  /\ calls' = Bump(d, "file", "tables")
             /\ IF failed
                THEN /\ \E n \in 0..Len(tables) :
                          fs' = [fs EXCEPT ![d] = WriteFile(@, TablesFileName,
                                                    TablesFile(SubSeq(tables, 1, n)))]
                     /\ Raise("OSError")
                ELSE /\ fs' = [fs EXCEPT ![d] = WriteFile(@, TablesFileName, TablesFile(tables))]
                     /\ pc' = "file_images"
                     /\ err' = err
    /\ UNCHANGED <<idx, docs, loaders, extractors, handles, opens, dbLog, db, conn,
                   nconn, todo, done, call>>

\* main.py 254: the call of extract_images that starts the image loop
FileExtractImages ==
    /\ pc = "file_images"
    /\ \E kept \in KeptChoices(Slot) :
         LET d == Slot
             r == extract_images(loaders[d].file_path, docs[d])
         IN  /\ FitzOpen(d, "extract_images", kept \/ r.raised # "none")
             /\ calls' = Bump(d, "file", "images")
             /\ IF r.raised # "none"
                THEN Raise(r.raised) /\ UNCHANGED <<todo, done>>
                ELSE /\ todo' = r.images
                     /\ err' = err
                     /\ IF r.images = <<>>
                        THEN pc' = "sql_init" /\ done' = [done EXCEPT ![d] = @ \cup {"file"}]
                        ELSE pc' = "file_image_save" /\ done' = done
    /\ UNCHANGED <<idx, docs, loaders, extractors, fs, dbLog, db, conn, nconn, call>>

\* main.py 255-256: one iteration of the image loop; when img.save raises
\* (failed), the image's file is not written and the error leaves save_data
FileSaveImage ==
    /\ pc = "file_image_save"
    /\ todo # <<>>
    /\ \E failed \in BOOLEAN :
         LET d == Slot
         IN  IF failed
             THEN /\ Raise("OSError")
                  /\ UNCHANGED <<fs, todo, done>>
             ELSE /\ fs' = [fs EXCEPT ![d] = SaveImage(@, Head(todo))]
                  /\ todo' = Tail(todo)
                  /\ err' = err
                  /\ IF Tail(todo) = <<>>
                     THEN pc' = "sql_init" /\ done' = [done EXCEPT ![d] = @ \cup {"file"}]
                     ELSE pc' = pc /\ done' = done
    /\ UNCHANGED <<idx, docs, loaders, extractors, handles, opens, calls, dbLog, db,
                   conn, nconn, call>>

(***************************************************************************)
(* SQLStorage (main.py 260-342).  The connector is the contract            *)
(* connect / execute / commit / close; dbLog records every call made.  The *)
(* server keeps the rows inserted on a connection apart until commit; rows *)
(* of a connection that never commits are never part of extracted_data.    *)
(***************************************************************************)
\* the parameter tuples of the three INSERT statements
TextRow(d, r) ==
    [file_name |-> loaders[d].file_path, page_number |-> r.page, data_type |-> r.data_type,
     content |-> r.text, font_name |-> r.font_name, font_size |-> r.font_size.v,
     bold |-> r.bold, italic |-> r.italic]

LinkRow(d, r) ==
    [file_name |-> loaders[d].file_path, page_number |-> r.page, data_type |-> "link",
     content |-> r.url, font_name |-> <<>>, font_size |-> 0,
     bold |-> FALSE, italic |-> FALSE]

\* content is json.dumps(table)
TableRow(d, r) ==
    [file_name |-> loaders[d].file_path, page_number |-> r.page, data_type |-> "table",
     content |-> <<"json", r.table>>, font_name |-> <<>>, font_size |-> 0,
     bold |-> FALSE, italic |-> FALSE]

SqlTextRows(d) ==
    LET rs == extract_text(loaders[d].file_path, docs[d])
    IN  [k \in 1..Len(rs) |-> TextRow(d, rs[k])]

\* a slip: the link loop left out, as in the flat-file sink
SqlLinkRows_none(d) == <<>>

SqlLinkRows(d) ==
    LET rs == extract_links(docs[d])
    IN  [k \in 1..Len(rs) |-> LinkRow(d, rs[k])]

SqlTableRows(d) ==
    LET rs == extract_tables(docs[d])
    IN  [k \in 1..Len(rs) |-> TableRow(d, rs[k])]

\* _ensure_database_exists (main.py 269-273) on connection id
EnsureEvents(id) ==
    <<On(id, Event("connect", TRUE)), On(id, Event("CREATE DATABASE", TRUE)),
      On(id, Event("close", TRUE))>>

\* main.py 276-294 on connection id
BeginEvents(id) ==
    <<On(id, Event("connect", TRUE)), On(id, Event("CREATE TABLE", TRUE))>>

\* a slip: the connection closed before the commit
FinishEvents_closeFirst(id) ==
    <<On(id, Event("close", TRUE)), On(id, Event("commit", TRUE))>>

\* main.py 341-342 on connection id
FinishEvents(id) ==
    <<On(id, Event("commit", TRUE)), On(id, Event("close", TRUE))>>

\* the server executing CREATE DATABASE [IF NOT EXISTS] name: creating a
\* database that exists is an error (1007) unless IF NOT EXISTS is given,
\* in which case the statement does nothing
CreateDatabase(server, name, if_not_exists) ==
    IF name \in server.databases
    THEN [raised |-> IF if_not_exists THEN "none" ELSE "mysql.connector.Error",
          server |-> server]
    ELSE [raised |-> "none",
          server |-> [server EXCEPT !.databases = @ \cup {name}]]

\* SQLStorage.__init__ with the CREATE DATABASE statement it sends; an
\* error of the statement leaves the constructor before conn.close()
SqlInitWith(if_not_exists) ==
    /\ pc = "sql_init"
    /\ LET r == CreateDatabase(db, Database, if_not_exists)
       IN  /\ nconn' = nconn + 1
           /\ db' = r.server
           /\ IF r.raised = "none"
              THEN /\ dbLog' = dbLog \o EnsureEvents(nconn + 1)
                   /\ pc' = "sql_begin"
                   /\ err' = err
              ELSE /\ dbLog' = dbLog \o <<On(nconn + 1, Event("connect", TRUE)),
                                          On(nconn + 1, Event("CREATE DATABASE", FALSE))>>
                   /\ Raise(r.raised)
    /\ UNCHANGED <<idx, docs, loaders, extractors, handles, opens, calls, fs, conn,
                   todo, done, call>>

\* a slip: a plain CREATE DATABASE, without IF NOT EXISTS
SqlInit_plainCreate == SqlInitWith(FALSE)

\* SQLStorage.__init__ (main.py 261-273)
SqlInit == SqlInitWith(TRUE)

\* a different design: the text records of the flat-file sink reused, no
\* new call of extract_text
SqlBegin_reuse ==
    /\ pc = "sql_begin"
    /\ todo' = SqlTextRows(Slot)
    /\ nconn' = nconn + 1
    /\ conn' = [id |-> nconn + 1, open |-> TRUE, inserted |-> <<>>]
    /\ dbLog' = dbLog \o BeginEvents(nconn + 1)
    /\ db' = [db EXCEPT !.tables = @ \cup {"extracted_data"}]
    /\ pc' = "sql_text"
    /\ UNCHANGED <<idx, docs, loaders, extractors, handles, opens, calls, fs, done,
                   err, call>>

\* save_data up to the call of extract_text that starts the first loop
\* (main.py 276-299)
SqlBegin ==
    /\ pc = "sql_begin"
    /\ \E kept \in KeptChoices(Slot) :
         LET d == Slot
         IN  /\ FitzOpen(d, "extract_text", kept)
             /\ calls' = Bump(d, "sql", "text")
             /\ todo' = SqlTextRows(d)
    /\ nconn' = nconn + 1
    /\ conn' = [id |-> nconn + 1, open |-> TRUE, inserted |-> <<>>]
    /\ dbLog' = dbLog \o BeginEvents(nconn + 1)
    /\ db' = [db EXCEPT !.tables = @ \cup {"extracted_data"}]
    /\ pc' = "sql_text"
    /\ UNCHANGED <<idx, docs, loaders, extractors, fs, done, err, call>>

\* a slip: a failing INSERT caught and skipped, the loop going on
SqlInsert_skipFailed ==
    /\ pc \in {"sql_text", "sql_links", "sql_tables"}
    /\ todo # <<>>
    /\ \E ok \in BOOLEAN :
         /\ dbLog' = Append(dbLog, Insert(conn.id, Head(todo), ok))
         /\ conn' = IF ok THEN [conn EXCEPT !.inserted = Append(@, Head(todo))] ELSE conn
         /\ todo' = Tail(todo)
         /\ UNCHANGED <<pc, err>>
    /\ UNCHANGED <<idx, docs, loaders, extractors, handles, opens, calls, fs, db,
                   nconn, done, call>>

\* one cursor.execute(INSERT ...) of any of the three loops (main.py 300,
\* 315, 329); the connector raises when the statement fails
SqlInsert ==
    /\ pc \in {"sql_text", "sql_links", "sql_tables"}
    /\ todo # <<>>
    /\ \E ok \in BOOLEAN :
         /\ dbLog' = Append(dbLog, Insert(conn.id, Head(todo), ok))
         /\ IF ok
            THEN /\ conn' = [conn EXCEPT !.inserted = Append(@, Head(todo))]
                 /\ todo' = Tail(todo)
                 /\ UNCHANGED <<pc, err>>
            ELSE /\ Raise("mysql.connector.Error")
                 /\ UNCHANGED <<conn, todo>>
    /\ UNCHANGED <<idx, docs, loaders, extractors, handles, opens, calls, fs, db,
                   nconn, done, call>>

\* main.py 314: the text loop is over, extract_links() starts the link loop
SqlExtractLinks ==
    /\ pc = "sql_text"
    /\ todo = <<>>
    /\ calls' = Bump(Slot, "sql", "links")
    /\ todo' = SqlLinkRows(Slot)
    /\ pc' = "sql_links"
    /\ UNCHANGED <<idx, docs, loaders, extractors, handles, opens, fs, dbLog, db,
                   conn, nconn, done, err, call>>

\* main.py 327: the link loop is over, extract_tables() starts the table loop
SqlExtractTables ==
    /\ pc = "sql_links"
    /\ todo = <<>>
    /\ calls' = Bump(Slot, "sql", "tables")
    /\ todo' = SqlTableRows(Slot)
    /\ pc' = "sql_tables"
    /\ UNCHANGED <<idx, docs, loaders, extractors, handles, opens, fs, dbLog, db,
                   conn, nconn, done, err, call>>

\* main.py 341-342, and the end of the loop body of main() (main.py 353)
SqlCommitClose ==
    /\ pc = "sql_tables"
    /\ todo = <<>>
    /\ dbLog' = dbLog \o FinishEvents(conn.id)
    /\ db' = [db EXCEPT !.rows = @ \o conn.inserted]
    /\ conn' = [conn EXCEPT !.open = FALSE, !.inserted = <<>>]
    /\ done' = [done EXCEPT ![Slot] = @ \cup {"sql"}]
    /\ IF idx < Len(LoopOrder)
       THEN idx' = idx + 1 /\ pc' = "file_text"
       ELSE idx' = idx /\ pc' = "done"
    /\ UNCHANGED <<docs, loaders, extractors, handles, opens, calls, fs, nconn,
                   todo, err, call>>

Next ==
    \/ ConstructLoader
    \/ ConstructExtractor
    \/ FileSaveText
    \/ FileSaveTables
    \/ FileExtractImages
    \/ FileSaveImage
    \/ SqlInit
    \/ SqlBegin
    \/ SqlInsert
    \/ SqlExtractLinks
    \/ SqlExtractTables
    \/ SqlCommitClose

Spec == Init /\ [][Next]_vars

(***************************************************************************)
(* Repeated saves: SQLStorage is constructed once for the extractor of one *)
(* document, and save_data is called on it up to MaxSaves times, each call *)
(* after the one before it returned.                                       *)
(***************************************************************************)
InitSaves ==
    /\ \E v \in Slots : \E x \in RunDocs(v) :
          /\ idx = v
          /\ docs = [d \in Slots |-> IF d = v THEN x ELSE SampleDoc(d)]
    /\ pc = "sql_init"
    /\ loaders = [d \in Slots |-> [built |-> TRUE, file_path |-> MainPath(d)]]
    /\ extractors = [d \in Slots |-> TRUE]
    /\ handles = {[slot |-> d, by |-> "load_file", n |-> 1] : d \in Slots}
    /\ opens = [d \in Slots |-> 1]
    /\ calls = [k \in Slots \X Sinks \X Walkers |-> 0]
    /\ fs = [d \in Slots |-> EmptyDir]
    /\ dbLog = <<>>
    /\ db = [databases |-> {}, tables |-> {}, rows |-> <<>>]
    /\ conn = NoConn
    /\ nconn = 0
    /\ todo = <<>>
    /\ done = [d \in Slots |-> {}]
    /\ err = "none"
    /\ call = NoCall

\* a different design: save_data replacing the rows an earlier call stored
\* for the same file
SqlCommitCloseSaveAgain_replace ==
    /\ pc = "sql_tables"
    /\ todo = <<>>
    /\ dbLog' = dbLog \o FinishEvents(conn.id)
    /\ db' = [db EXCEPT !.rows = SelectSeq(@, LAMBDA r : r.file_name # MainPath(Slot))
                                  \o conn.inserted]
    /\ conn' = [conn EXCEPT !.open = FALSE, !.inserted = <<>>]
    /\ done' = [done EXCEPT ![Slot] = @ \cup {"sql"}]
    /\ pc' = IF nconn < 1 + MaxSaves THEN "sql_begin" ELSE "done"
    /\ UNCHANGED <<idx, docs, loaders, extractors, handles, opens, calls, fs, nconn,
                   todo, err, call>>

\* main.py 341-342: save_data commits, closes and returns; the caller then
\* calls save_data again (every call makes one connection, the constructor
\* made the first)
SqlCommitCloseSaveAgain ==
    /\ pc = "sql_tables"
    /\ todo = <<>>
    /\ dbLog' = dbLog \o FinishEvents(conn.id)
    /\ db' = [db EXCEPT !.rows = @ \o conn.inserted]
    /\ conn' = [conn EXCEPT !.open = FALSE, !.inserted = <<>>]
    /\ done' = [done EXCEPT ![Slot] = @ \cup {"sql"}]
    /\ pc' = IF nconn < 1 + MaxSaves THEN "sql_begin" ELSE "done"
    /\ UNCHANGED <<idx, docs, loaders, extractors, handles, opens, calls, fs, nconn,
                   todo, err, call>>

NextSaves ==
    \/ SqlInit
    \/ SqlBegin
    \/ SqlInsert
    \/ SqlExtractLinks
    \/ SqlExtractTables
    \/ SqlCommitCloseSaveAgain

SpecSaves == InitSaves /\ [][NextSaves]_vars

(***************************************************************************)
(* Direct calls of the pure parts: the loader constructors, the heading    *)
(* classifier, extract_text, extract_tables and extract_links, on inputs   *)
(* drawn from bounded sets: one call per behaviour.  The state of main()   *)
(* is left alone.                                                          *)
(***************************************************************************)
\* raw font sizes handed to is_heading
FontSizes ==
    {Num(n) : n \in {0} \cup ((HeadingThreshold - 2)..(HeadingThreshold + 2))}
    \cup {[t |-> "numstr", v |-> n] : n \in (HeadingThreshold - 1)..(HeadingThreshold + 1)}
    \cup {[t |-> "badstr", v |-> 0], [t |-> "none", v |-> 0]}

\* paths handed to the loader constructors: a stem followed by an ending
PathStems == {<<>>, <<"a">>, <<"a">> \o Suffix_pdf, <<"a">> \o Suffix_docx \o <<"/">>}

PathEndings ==
    { <<>>, Suffix_pdf, Suffix_docx, Suffix_pptx,
      <<".", "P", "D", "F">>, <<".", "D", "o", "c", "x">>, <<".", "p", "p", "t", "X">>,
      <<".", "p", "d", "f", "x">>, <<".", "d", "o", "c">>, <<".", "p", "p", "t">>,
      <<"p", "d", "f">>, Suffix_pptx \o <<" ">> }

Paths == {stem \o ending : stem \in PathStems, ending \in PathEndings}

\* a text with white space on both sides and inside
Padded == <<" ", "b", " ", "c", "\t">>

\* spans and runs handed to extract_text
PdfSpans ==
    {Span(<<<<"a">>>>, f, z) :
        f \in {<<>>, <<Regular>>, <<<<"A", "-">> \o Bold>>},
        z \in {<<>>, <<Num(HeadingThreshold)>>, <<Num(HeadingThreshold + 1)>>}}
    \cup {Span(t, <<Regular>>, <<Num(HeadingThreshold)>>) :
        t \in {<<>>, <<<<>>>>, <<<<" ", NL>>>>, <<Padded>>}}

DocxRuns ==
    {Run(<<"a">>, z, b, <<>>) :
        z \in {<<>>, <<HeadingThreshold>>, <<HeadingThreshold + 1>>},
        b \in {<<>>, <<TRUE>>, <<FALSE>>}}
    \cup {Run(t, <<HeadingThreshold>>, <<FALSE>>, <<>>) : t \in {<<>>, <<" ", NL>>, Padded}}

TextDocs ==
    {[kind |-> "pdf", pages |-> <<PdfPage(<<TextBlock(sp)>>, <<>>, <<>>, <<>>)>>] :
        sp \in SeqsUpTo(PdfSpans, MaxRuns)}
    \cup {[kind |-> "docx", paragraphs |-> <<Para(rs)>>, rels |-> <<>>, tables |-> <<>>] :
        rs \in SeqsUpTo(DocxRuns, MaxRuns)}
    \cup {[kind |-> "pptx", slides |-> <<[shapes |-> <<TextShape(<<Para(rs)>>)>>]>>] :
        rs \in SeqsUpTo(DocxRuns, MaxRuns)}

\* cell grids handed to extract_tables: no row, one row without cells, one
\* row of two cells, two rows of different lengths
TableGrids == {<<>>, <<<<>>>>, Grid, <<<<Cell>>, <<Cell, <<"c", " ">>>>>>}

TableDocs ==
    {[kind |-> "pdf", pages |-> <<PdfPage(<<>>, <<>>, <<>>, <<>>),
                                  PdfPage(<<>>, <<>>, ts, <<>>)>>] :
        ts \in SeqsUpTo(TableGrids, MaxUnits)}
    \cup {[kind |-> "docx", paragraphs |-> <<>>, rels |-> <<>>, tables |-> ts] :
        ts \in SeqsUpTo(TableGrids, MaxUnits)}
    \cup {[kind |-> "pptx",
           slides |-> <<[shapes |-> <<TextShape(<<>>)>>
                                    \o [k \in 1..Len(ts) |-> TableShape(ts[k])]]>>] :
        ts \in SeqsUpTo(TableGrids, MaxUnits)}

\* paragraphs and relationships handed to the DOCX branch of extract_links:
\* a paragraph without text, one with the URI "uv" split over two runs, one
\* with the URIs "uv" and "w", one with neither; hyperlink relationships to
\* "uv", to "w" and to the empty string, and an image relationship whose
\* target is "uv"
Uv == <<"u", "v">>
W == <<"w">>

LinkParagraphs ==
    { Para(<<>>),
      Para(<<Run(<<"a", " ", "u">>, <<>>, <<>>, <<>>), Run(<<"v">>, <<>>, <<>>, <<>>)>>),
      Para(<<Run(<<"w", " ", "u", "v", "u", "v">>, <<>>, <<>>, <<>>)>>),
      Para(<<Run(<<"v", "u">>, <<>>, <<>>, <<>>)>>) }

LinkRels ==
    { Rel(RelHyperlink, Uv, TRUE), Rel(RelHyperlink, W, TRUE),
      Rel(RelHyperlink, <<>>, TRUE), Rel(RelImage, Uv, TRUE) }

LinkDocs ==
    {[kind |-> "docx", paragraphs |-> ps, rels |-> rs, tables |-> <<>>] :
        ps \in SeqsUpTo(LinkParagraphs, MaxUnits), rs \in SeqsUpTo(LinkRels, MaxUnits)}

\* the path a document of a kind is stored at
DocPath(doc) ==
    <<"t">> \o (IF doc.kind = "pdf" THEN Suffix_pdf
                ELSE IF doc.kind = "docx" THEN Suffix_docx ELSE Suffix_pptx)

CallLoader ==
    /\ call = NoCall
    /\ \E cls \in LoaderClasses, path \in Paths :
         call' = [op |-> "FileLoader", args |-> <<cls, path>>,
                  ret |-> FileLoader_init(cls, path)]
    /\ UNCHANGED mainVars

CallIsHeading ==
    /\ call = NoCall
    /\ \E font_size \in FontSizes, bold \in BOOLEAN :
         call' = [op |-> "is_heading", args |-> <<font_size, bold>>,
                  ret |-> is_heading(font_size, bold)]
    /\ UNCHANGED mainVars

CallExtractText ==
    /\ call = NoCall
    /\ \E doc \in TextDocs :
         call' = [op |-> "extract_text", args |-> <<DocPath(doc), doc>>,
                  ret |-> extract_text(DocPath(doc), doc)]
    /\ UNCHANGED mainVars

CallExtractTables ==
    /\ call = NoCall
    /\ \E doc \in TableDocs :
         call' = [op |-> "extract_tables", args |-> <<doc>>,
                  ret |-> extract_tables(doc)]
    /\ UNCHANGED mainVars

CallExtractLinks ==
    /\ call = NoCall
    /\ \E doc \in LinkDocs :
         call' = [op |-> "extract_links", args |-> <<doc>>,
                  ret |-> extract_links(doc)]
    /\ UNCHANGED mainVars

InitCalls ==
    /\ InitMain([d \in Slots |-> SampleDoc(d)])
    /\ call = NoCall

NextCalls ==
    \/ CallLoader
    \/ CallIsHeading
    \/ CallExtractText
    \/ CallExtractTables
    \/ CallExtractLinks

SpecCalls == InitCalls /\ [][NextCalls]_vars

(***************************************************************************)
(* Properties.                                                             *)
(***************************************************************************)

\* the number a raw font size stands for: its value when it is a number or
\* a numeric string, 0 otherwise
C1_Coerced(font_size) ==
    IF font_size.t = "num" \/ font_size.t = "numstr" THEN font_size.v ELSE 0

\* C1: is_heading(font_size, bold) is true exactly when bold is true or the
\* coerced font size (0 when the coercion fails) is strictly above 12.0, so
\* 12.0 and not bold is body text; and every record extract_text emits, for
\* each of the three walkers, has data_type "heading" exactly when its own
\* bold field is true or its own font_size field is above 12.0, and "text"
\* otherwise.
C1_HeadingIffBoldOrLarge ==
    /\ call.op = "is_heading" =>
          (call.ret <=> (call.args[2] \/ C1_Coerced(call.args[1]) > 120))
    /\ call.op = "extract_text" =>
          \A k \in 1..Len(call.ret) :
             LET r == call.ret[k]
             IN  /\ r.data_type \in {"heading", "text"}
                 /\ r.data_type = "heading" <=> (r.bold \/ r.font_size.v > 120)

\* C1 witness: a walker emitted a 12.0 pt record that is not bold and is
\* body text, next to a 12.1 pt record that is not bold and is a heading
C1_Witness ==
    /\ call.op = "extract_text"
    /\ \E j, k \in 1..Len(call.ret) :
          /\ ~call.ret[j].bold /\ call.ret[j].font_size.v = 120
          /\ call.ret[j].data_type = "text"
          /\ ~call.ret[k].bold /\ call.ret[k].font_size.v = 121
          /\ call.ret[k].data_type = "heading"

\* the last Len(suffix) characters of path are suffix, character by character
C2_EndsIn(path, suffix) ==
    /\ Len(path) >= Len(suffix)
    /\ \A i \in 1..Len(suffix) : path[Len(path) - Len(suffix) + i] = suffix[i]

\* C2: constructing PDFLoader, DOCXLoader or PPTLoader succeeds, keeping the
\* path as file_path, exactly when the path ends with ".pdf", ".docx" or
\* ".pptx" respectively (case-sensitive); otherwise it fails with ValueError;
\* in both cases the constructor never calls load_file.
C2_LoaderAcceptsExactlySuffix ==
    call.op = "FileLoader" =>
       LET cls == call.args[1]
           path == call.args[2]
           suffix == IF cls = "PDFLoader" THEN <<".", "p", "d", "f">>
                     ELSE IF cls = "DOCXLoader" THEN <<".", "d", "o", "c", "x">>
                     ELSE <<".", "p", "p", "t", "x">>
       IN  /\ (call.ret.raised = "none") <=> C2_EndsIn(path, suffix)
           /\ call.ret.raised = "none" => call.ret.file_path = path
           /\ call.ret.raised # "none" => call.ret.raised = "ValueError"
           /\ call.ret.load_calls = 0

\* C2 witness: PDFLoader was constructed with a path that has ".pdf" inside
\* but not at its end, and raised ValueError
C2_Witness ==
    /\ call.op = "FileLoader"
    /\ call.args[1] = "PDFLoader"
    /\ Contains(call.args[2], Suffix_pdf)
    /\ ~endswith(call.args[2], Suffix_pdf)
    /\ call.ret.raised = "ValueError"

\* the records the walkers emit for the document of slot d
Texts(d) == extract_text(MainPath(d), docs[d])
Links(d) == extract_links(docs[d])
Tables(d) == extract_tables(docs[d])
Images(d) == extract_images(MainPath(d), docs[d]).images

\* positions in dbLog of the connector calls op made for slot d
Positions(d, op) == {i \in 1..Len(dbLog) : dbLog[i].slot = d /\ dbLog[i].op = op}

\* number of INSERT statements executed for slot d with a data_type in types
InsertsOf(d, types) ==
    Cardinality({i \in Positions(d, "INSERT") : dbLog[i].what \in types})

\* C3: when SQLStorage.save_data has returned for a document with T text
\* spans, L links and K tables (and any number of images), it has executed
\* exactly T + L + K INSERT statements: T with data_type heading or text,
\* L with data_type link, K with data_type table, and no other.
C3_OneInsertPerTextLinkTable ==
    \A d \in Slots :
       "sql" \in done[d] =>
          /\ InsertsOf(d, {"heading", "text"}) = Len(Texts(d))
          /\ InsertsOf(d, {"link"}) = Len(Links(d))
          /\ InsertsOf(d, {"table"}) = Len(Tables(d))
          /\ Cardinality(Positions(d, "INSERT")) = Len(Texts(d)) + Len(Links(d)) + Len(Tables(d))

\* C3 witness: save_data returned for a document that has text spans, links,
\* tables and images, the images being on disk
C3_Witness ==
    \E d \in Slots :
       /\ "sql" \in done[d]
       /\ Len(Texts(d)) >= 2 /\ Len(Links(d)) >= 1 /\ Len(Tables(d)) >= 1
       /\ Len(Images(d)) >= 1 /\ ImageFiles(fs[d]) # {}

\* C4: when SQLStorage.save_data has returned for a document, there is
\* exactly one commit; every INSERT of the batch was executed on the
\* connection of that commit and before it; that connection was closed
\* exactly once, after the commit; and constructing the sink plus saving
\* once made exactly two close calls and one commit.
C4_OneConnectionOneCommitOneClose ==
    \A d \in Slots :
       "sql" \in done[d] =>
          /\ Cardinality(Positions(d, "commit")) = 1
          /\ Cardinality(Positions(d, "close")) = 2
          /\ \A c \in Positions(d, "commit") :
                /\ \A i \in Positions(d, "INSERT") :
                      dbLog[i].conn = dbLog[c].conn /\ i < c
                /\ Cardinality({k \in Positions(d, "close") :
                                   dbLog[k].conn = dbLog[c].conn}) = 1
                /\ \A k \in Positions(d, "close") :
                      dbLog[k].conn = dbLog[c].conn => k > c

\* C4 witness: save_data returned after at least three inserts
C4_Witness ==
    \E d \in Slots :
       /\ "sql" \in done[d]
       /\ Cardinality(Positions(d, "INSERT")) >= 3
       /\ Positions(d, "commit") # {}

\* committed rows of extracted_data that belong to the document of slot d
RowsOf(d) == {i \in 1..Len(db.rows) : db.rows[i].file_name = MainPath(d)}

\* C5: a failing INSERT is the last connector call of the run: no further
\* INSERT is executed, commit is not called on that connection, and the
\* connector's error leaves main(); and at every moment the number of
\* committed rows of a document is either 0 or T + L + K.
C5_FailedInsertAbortsBatch ==
    /\ \A i \in 1..Len(dbLog) :
          (dbLog[i].op = "INSERT" /\ ~dbLog[i].ok) =>
             /\ i = Len(dbLog)
             /\ pc = "raised" /\ err = "mysql.connector.Error"
             /\ \A c \in 1..Len(dbLog) :
                   dbLog[c].op = "commit" => dbLog[c].conn # dbLog[i].conn
             /\ RowsOf(dbLog[i].slot) = {}
    /\ \A d \in Slots :
          \/ RowsOf(d) = {}
          \/ Cardinality(RowsOf(d)) = Len(Texts(d)) + Len(Links(d)) + Len(Tables(d))

\* C5 witness: an INSERT failed after two INSERTs of the same batch had
\* succeeded, and none of the batch's rows is committed
C5_Witness ==
    \E i \in 3..Len(dbLog) :
       /\ dbLog[i].op = "INSERT" /\ ~dbLog[i].ok
       /\ dbLog[i - 1].op = "INSERT" /\ dbLog[i - 1].ok
       /\ dbLog[i - 2].op = "INSERT" /\ dbLog[i - 2].ok
       /\ dbLog[i - 2].conn = dbLog[i].conn
       /\ Len(conn.inserted) >= 2
       /\ RowsOf(dbLog[i].slot) = {}
       /\ err = "mysql.connector.Error"

\* C6: when FileStorage.save_data has returned for a document with n image
\* records, the image files of its output directory are exactly
\* image_1.png ... image_n.png, one per image record in emission order (so
\* the directory holds n distinct image files).
C6_ImagesNumberedByEmission ==
    \A d \in Slots :
       "file" \in done[d] =>
          ImageFiles(fs[d])
             = {<<"image_", ToString(k), ".png">> : k \in 1..Len(Images(d))}

\* number of line breaks inside the fields FormatLine copies from a record
BreaksIn(r) == LineCount(r.text) + LineCount(r.font_name)

RECURSIVE SumBreaks(_)
SumBreaks(records) ==
    IF records = <<>> THEN 0 ELSE BreaksIn(Head(records)) + SumBreaks(Tail(records))

\* the files of an output directory are text_data.txt, tables.csv and
\* image_<n>.png files
OnlyTextTablesImages(dir) ==
    \A n \in DOMAIN dir.files :
       \/ n = <<"text_data.txt">>
       \/ n = <<"tables.csv">>
       \/ Len(n) = 3 /\ n[1] = "image_" /\ n[3] = ".png"

Started(d) ==
    \/ \E s \in Sinks, w \in Walkers : calls[<<d, s, w>>] > 0
    \/ fs[d].exists
    \/ \E i \in 1..Len(dbLog) : dbLog[i].slot = d

\* C8 as stated: at no point is a document's native handle opened while
\* another document of the run is opened and not yet fully persisted.
C8_OneDocumentOpenAtATime ==
    Cardinality({d \in Slots : opens[d] > 0 /\ done[d] # Sinks}) <= 1

\* C8 amended: the native documents of all three slots are opened, by the
\* DataExtractor constructors, before the first document is walked or
\* persisted; from then on each document is fully walked and persisted by
\* both sinks before any walker or sink starts on the next document of the
\* loop (pdf, doc, ppt).
C8_PersistedBeforeNextIsWalked ==
    /\ \A d, e \in Slots : (d < e /\ Started(e)) => done[d] = Sinks
    /\ (\E d \in Slots : Started(d)) => \A e \in Slots : extractors[e] /\ opens[e] >= 1

\* C8 witness: the second document is being persisted, the first is fully
\* persisted, and the third, not yet started, has been open since before
\* the first was walked
C8_Witness ==
    /\ done[1] = Sinks
    /\ Started(2) /\ done[2] = {"file"}
    /\ ~Started(3)
    /\ \E h \in handles : h.slot = 3 /\ h.by = "load_file"

\* C9 as stated: each walker procedure is invoked at most once per document,
\* whichever sinks persist it.
C9_EachWalkerAtMostOnce ==
    \A d \in Slots, w \in Walkers : calls[<<d, "file", w>>] + calls[<<d, "sql", w>>] <= 1

\* C9 amended: each sink runs its own extraction.  The flat-file sink
\* invokes extract_text, extract_tables and extract_images once each and
\* never extract_links; the relational sink invokes extract_text,
\* extract_links and extract_tables once each and never extract_images; so
\* a document persisted by both sinks has extract_text and extract_tables
\* invoked exactly twice, extract_images and extract_links exactly once.
C9_EachSinkExtractsItself ==
    \A d \in Slots :
       /\ calls[<<d, "file", "links">>] = 0
       /\ calls[<<d, "sql", "images">>] = 0
       /\ \A s \in Sinks, w \in Walkers : calls[<<d, s, w>>] <= 1
       /\ "file" \in done[d] =>
             \A w \in {"text", "tables", "images"} : calls[<<d, "file", w>>] = 1
       /\ "sql" \in done[d] =>
             \A w \in {"text", "links", "tables"} : calls[<<d, "sql", w>>] = 1
       /\ done[d] = Sinks =>
             /\ calls[<<d, "file", "text">>] + calls[<<d, "sql", "text">>] = 2
             /\ calls[<<d, "file", "tables">>] + calls[<<d, "sql", "tables">>] = 2

\* C9 witness: a document with text spans and tables was persisted by both
\* sinks
C9_Witness ==
    \E d \in Slots :
       /\ done[d] = Sinks
       /\ Len(Texts(d)) >= 1 /\ Len(Tables(d)) >= 1
       /\ calls[<<d, "sql", "text">>] = 1 /\ calls[<<d, "file", "text">>] = 1

\* C10: once extraction and persistence of a document have ended, with both
\* sinks returned or with an error raised while the document was being
\* walked or persisted, no native handle opened for it is still open.
C10_HandlesReleased ==
    \A d \in Slots :
       (\/ done[d] = Sinks
        \/ pc = "raised" /\ d = LoopOrder[idx] /\ Started(d))
       => {h \in handles : h.slot = d} = {}

\* the texts of the spans (PDF, text blocks only) or runs (DOCX, PPTX, shapes
\* with a text frame only) of a document, in document order
C11_PdfPageTexts(page) ==
    ConcatTo(LAMBDA b :
        IF page.blocks[b].type = 0
        THEN ConcatTo(LAMBDA l :
                 [k \in 1..Len(page.blocks[b].lines[l].spans) |->
                     IF page.blocks[b].lines[l].spans[k].text = <<>> THEN <<>>
                     ELSE page.blocks[b].lines[l].spans[k].text[1]],
                 Len(page.blocks[b].lines))
        ELSE <<>>, Len(page.blocks))

C11_ParaTexts(para) == [k \in 1..Len(para.runs) |-> para.runs[k].text]

C11_SlideTexts(slide) ==
    ConcatTo(LAMBDA s :
        IF slide.shapes[s].text_frame = <<>> THEN <<>>
        ELSE ConcatTo(LAMBDA p : C11_ParaTexts(slide.shapes[s].text_frame[1][p]),
                      Len(slide.shapes[s].text_frame[1])), Len(slide.shapes))

C11_SourceTexts(doc) ==
    IF doc.kind = "pdf"
    THEN ConcatTo(LAMBDA i : C11_PdfPageTexts(doc.pages[i]), Len(doc.pages))
    ELSE IF doc.kind = "docx"
    THEN ConcatTo(LAMBDA i : C11_ParaTexts(doc.paragraphs[i]), Len(doc.paragraphs))
    ELSE ConcatTo(LAMBDA i : C11_SlideTexts(doc.slides[i]), Len(doc.slides))

\* a text is blank when it is empty or made of white space only
C11_Blank(t) == \A i \in 1..Len(t) : t[i] \in {" ", "\n", "\t"}

\* t is the text src without the white space at its two ends
C11_TrimOf(t, src) ==
    /\ t # <<>>
    /\ ~C11_Blank(<<t[1]>>) /\ ~C11_Blank(<<t[Len(t)]>>)
    /\ \E a \in 0..(Len(src) - Len(t)) :
          /\ SubSeq(src, a + 1, a + Len(t)) = t
          /\ C11_Blank(SubSeq(src, 1, a))
          /\ C11_Blank(SubSeq(src, a + Len(t) + 1, Len(src)))

\* C11: for each of the three walkers, every text record extract_text emits
\* has a text that is not empty and has no white space at either end; a span
\* or run whose text is empty or white space only gives no record; and the
\* records are, in document order, one per span or run with a non-blank
\* text, each carrying that text trimmed.
C11_NoBlankTextRecord ==
    call.op = "extract_text" =>
       LET nonblank == SelectSeq(C11_SourceTexts(call.args[2]), LAMBDA t : ~C11_Blank(t))
       IN  /\ Len(call.ret) = Len(nonblank)
           /\ \A k \in 1..Len(call.ret) :
                 /\ call.ret[k].text # <<>>
                 /\ ~C11_Blank(call.ret[k].text)
                 /\ k <= Len(nonblank) => C11_TrimOf(call.ret[k].text, nonblank[k])

\* C11 witness: a walker was given a blank run followed by a run with white
\* space around its text, and emitted one record, with the trimmed text
C11_Witness ==
    /\ call.op = "extract_text"
    /\ call.args[2].kind = "pptx"
    /\ Len(C11_SourceTexts(call.args[2])) = 2
    /\ C11_Blank(C11_SourceTexts(call.args[2])[1])
    /\ C11_SourceTexts(call.args[2])[2] = <<" ", "b", " ", "c", "\t">>
    /\ Len(call.ret) = 1
    /\ call.ret[1].text = <<"b", " ", "c">>

\* C12: every table record emitted by any of the three walkers has a
\* row_count equal to the number of rows of its own cell grid, and a
\* col_count equal to the number of cells of the grid's first row when the
\* grid has a row, 0 when it has none.
C12_TableDimensions ==
    call.op = "extract_tables" =>
       \A k \in 1..Len(call.ret) :
          LET r == call.ret[k]
          IN  /\ r.rows = Cardinality(DOMAIN r.table)
              /\ r.table = <<>> => r.cols = 0
              /\ r.table # <<>> => r.cols = Cardinality(DOMAIN Head(r.table))

\* C12 witness: a walker emitted a record for a grid without rows (0x0) and
\* a record for a grid whose two rows differ in length (2x1)
C12_Witness ==
    /\ call.op = "extract_tables"
    /\ \E j, k \in 1..Len(call.ret) :
          /\ call.ret[j].table = <<>> /\ call.ret[j].rows = 0 /\ call.ret[j].cols = 0
          /\ Len(call.ret[k].table) = 2
          /\ Len(call.ret[k].table[1]) = 1 /\ Len(call.ret[k].table[2]) = 2
          /\ call.ret[k].rows = 2 /\ call.ret[k].cols = 1

\* the text of paragraph p of a word-processing document
C13_ParaText(doc, p) == JoinRuns(doc.paragraphs[p].runs)

\* uri occurs in text: text is some prefix, then uri, then some suffix
C13_Occurs(uri, text) ==
    \E a \in 0..Len(text) : \E b \in a..Len(text) :
       /\ b - a = Len(uri)
       /\ \A i \in 1..Len(uri) : text[a + i] = uri[i]

\* relationship r of the document is of a hyperlink type
C13_IsHyperlink(doc, r) == C13_Occurs(Str_hyperlink, doc.rels[r].reltype)

\* the pairs (paragraph, hyperlink relationship) whose URI occurs in the
\* paragraph's non-empty text
C13_Pairs(doc) ==
    {pr \in (1..Len(doc.paragraphs)) \X (1..Len(doc.rels)) :
        /\ C13_IsHyperlink(doc, pr[2])
        /\ C13_ParaText(doc, pr[1]) # <<>>
        /\ C13_Occurs(doc.rels[pr[2]].target_ref, C13_ParaText(doc, pr[1]))}

\* position of a pair in paragraph-major order
C13_Rank(doc, pr) ==
    1 + Cardinality({q \in C13_Pairs(doc) :
                        q[1] < pr[1] \/ (q[1] = pr[1] /\ q[2] < pr[2])})

\* C13: for a word-processing document, extract_links emits exactly one
\* record (location 1, target URI) for every pair (paragraph, hyperlink
\* relationship) whose target URI is a substring of the paragraph's
\* non-empty text, and no other record, in paragraph-major order; so a
\* document with one hyperlink relationship whose URI occurs in exactly one
\* paragraph (in the text of one paragraph that has text) yields exactly one
\* record.
C13_DocxLinkPerParagraphAndRel ==
    (call.op = "extract_links" /\ call.args[1].kind = "docx") =>
       LET doc == call.args[1]
       IN  /\ Len(call.ret) = Cardinality(C13_Pairs(doc))
           /\ \A pr \in C13_Pairs(doc) :
                 /\ C13_Rank(doc, pr) <= Len(call.ret)
                 /\ call.ret[C13_Rank(doc, pr)].page = 1
                 /\ call.ret[C13_Rank(doc, pr)].url = doc.rels[pr[2]].target_ref
           /\ (/\ Cardinality({r \in 1..Len(doc.rels) : C13_IsHyperlink(doc, r)}) = 1
               /\ \E r \in 1..Len(doc.rels) :
                     /\ C13_IsHyperlink(doc, r)
                     /\ Cardinality({p \in 1..Len(doc.paragraphs) :
                            /\ C13_ParaText(doc, p) # <<>>
                            /\ C13_Occurs(doc.rels[r].target_ref,
                                          C13_ParaText(doc, p))}) = 1)
              => Len(call.ret) = 1

\* C13 witness: a document of two paragraphs with one hyperlink relationship,
\* whose URI occurs (twice) in one paragraph only, and an image relationship
\* with the same target gave exactly one record, at location 1
C13_Witness ==
    /\ call.op = "extract_links"
    /\ Len(call.args[1].paragraphs) = 2
    /\ Len(call.args[1].rels) = 2
    /\ Cardinality({r \in 1..2 : C13_IsHyperlink(call.args[1], r)}) = 1
    /\ \A r \in 1..2 : call.args[1].rels[r].target_ref = <<"u", "v">>
    /\ C13_ParaText(call.args[1], 1) = <<"v", "u">>
    /\ C13_ParaText(call.args[1], 2) = <<"w", " ", "u", "v", "u", "v">>
    /\ call.ret = <<[page |-> 1, url |-> <<"u", "v">>]>>

\* number of times the ensure-database-exists step has sent its statement
C14_Ensured == Cardinality({i \in 1..Len(dbLog) : dbLog[i].op = "CREATE DATABASE"})

\* C14: the ensure-database-exists step of SQLStorage, run any number of
\* times for the same database name (main() constructs SQLStorage once per
\* document), never raises, and after one run or several the server has the
\* same databases and schema: the one database, and the tables and rows a
\* run found are the tables and rows it leaves; a run that finds the
\* database changes nothing on the server.
C14_EnsureDatabaseIdempotent ==
    /\ [](C14_Ensured >= 1 =>
            /\ db.databases = {"document_data"}
            /\ \A i \in 1..Len(dbLog) : dbLog[i].op = "CREATE DATABASE" => dbLog[i].ok)
    /\ [][pc = "sql_init" =>
            /\ pc' = "sql_begin" /\ err' = "none"
            /\ db'.tables = db.tables /\ db'.rows = db.rows
            /\ "document_data" \in db.databases => db' = db]_vars

\* C14 witness: the step has run three times, the last two on a server that
\* had the database, its table and committed rows
C14_Witness ==
    /\ C14_Ensured = 3
    /\ pc = "sql_begin"
    /\ db.databases = {"document_data"}
    /\ db.tables = {"extracted_data"}
    /\ Len(db.rows) >= 2

\* the document has an embedded image whose bytes cannot be decoded: an
\* image of a PDF page, the payload of a DOCX relationship whose target has
\* "image" in it, or the image of a PPTX picture shape
C15_Undecodable(doc) ==
    IF doc.kind = "pdf"
    THEN \E i \in 1..Len(doc.pages) : \E k \in 1..Len(doc.pages[i].images) :
            ~doc.pages[i].images[k].ok
    ELSE IF doc.kind = "docx"
    THEN \E i \in 1..Len(doc.rels) :
            /\ C13_Occurs(<<"i", "m", "a", "g", "e">>, doc.rels[i].target_ref)
            /\ ~doc.rels[i].blob.ok
    ELSE \E i \in 1..Len(doc.slides) : \E k \in 1..Len(doc.slides[i].shapes) :
            /\ doc.slides[i].shapes[k].shape_type = 13
            /\ ~doc.slides[i].shapes[k].image.ok

\* C15: when an embedded image of a document cannot be decoded, the call of
\* extract_images made for it returns no image record (the image loop of
\* the flat-file sink has nothing to go through, whatever was decoded
\* before the failing image), the decoder's error leaves main() instead of
\* the image being skipped, and the document's output directory never
\* holds an image file; its text_data.txt and tables.csv stay.
C15_DecodeFailureAbortsImages ==
    \A d \in Slots :
       C15_Undecodable(docs[d]) =>
          /\ ImageFiles(fs[d]) = {}
          /\ "file" \notin done[d]
          /\ calls[<<d, "file", "images">>] >= 1 =>
                /\ pc = "raised" /\ err = "UnidentifiedImageError"
                /\ todo = <<>>
                /\ DOMAIN fs[d].files = {<<"text_data.txt">>, <<"tables.csv">>}

\* C15 witness: extract_images was called for a PDF whose first page has two
\* decodable images and whose second page has an undecodable one; the
\* error left main() and the directory holds no image file
C15_Witness ==
    /\ pc = "raised" /\ err = "UnidentifiedImageError"
    /\ calls[<<1, "file", "images">>] = 1
    /\ Len(docs[1].pages) = 2
    /\ Len(docs[1].pages[1].images) = 2
    /\ \A k \in 1..2 : docs[1].pages[1].images[k].ok
    /\ \E k \in 1..Len(docs[1].pages[2].images) : ~docs[1].pages[2].images[k].ok
    /\ ImageFiles(fs[1]) = {}
    /\ fs[1].exists

\* the file n of the output directory of slot d, if there, is there
\* unchanged after the step
C16_Kept(d, n) ==
    n \in DOMAIN fs[d].files =>
       (n \in DOMAIN fs'[d].files /\ fs'[d].files[n] = fs[d].files[n])

\* C16: the steps of FileStorage.save_data run in the order directory,
\* text_data.txt, tables.csv, images, and nothing is taken back: once the
\* tables step has started, failed or not, the directory and the complete
\* text_data.txt are on disk; once the image step has started, failed or
\* not, the complete tables.csv is on disk as well; and no step of the run,
\* failing or not, removes the directory or removes or changes a
\* text_data.txt or tables.csv that is on disk.
C16_CompletedStepsStay ==
    /\ [](\A d \in Slots :
            /\ DOMAIN fs[d].files # {} => fs[d].exists
            /\ calls[<<d, "file", "text">>] >= 1 => fs[d].exists
            /\ calls[<<d, "file", "tables">>] >= 1 =>
                  /\ calls[<<d, "file", "text">>] >= 1
                  /\ <<"text_data.txt">> \in DOMAIN fs[d].files
                  /\ fs[d].files[<<"text_data.txt">>] = TextFile(Texts(d))
            /\ <<"tables.csv">> \in DOMAIN fs[d].files => calls[<<d, "file", "tables">>] >= 1
            /\ calls[<<d, "file", "images">>] >= 1 =>
                  /\ calls[<<d, "file", "tables">>] >= 1
                  /\ <<"tables.csv">> \in DOMAIN fs[d].files
                  /\ fs[d].files[<<"tables.csv">>] = TablesFile(Tables(d))
            /\ ImageFiles(fs[d]) # {} => calls[<<d, "file", "images">>] >= 1)
    /\ [][\A d \in Slots :
            /\ fs[d].exists => fs'[d].exists
            /\ C16_Kept(d, <<"text_data.txt">>)
            /\ C16_Kept(d, <<"tables.csv">>)]_vars

\* C16 witness: writing the second image of a document failed; the
\* directory, text_data.txt, tables.csv with a table in it and the first
\* image file are on disk
C16_Witness ==
    /\ pc = "raised" /\ err = "OSError"
    /\ \E d \in Slots :
          /\ d = LoopOrder[idx]
          /\ Len(Images(d)) = 2 /\ Len(todo) = 1
          /\ "file" \notin done[d]
          /\ fs[d].exists
          /\ Cardinality(ImageFiles(fs[d])) = 1
          /\ Len(Tables(d)) >= 1
          /\ fs[d].files[<<"tables.csv">>] # <<>>
          /\ fs[d].files[<<"text_data.txt">>] # <<>>

\* number of walker calls made so far on the document of slot d
C17_WalkerCalls(d) ==
    calls[<<d, "file", "text">>] + calls[<<d, "file", "links">>]
    + calls[<<d, "file", "tables">>] + calls[<<d, "file", "images">>]
    + calls[<<d, "sql", "text">>] + calls[<<d, "sql", "links">>]
    + calls[<<d, "sql", "tables">>] + calls[<<d, "sql", "images">>]

\* C17 as stated: constructing the loader and the extractor for a path opens
\* no native document; a native document is opened only at the first walker
\* call that needs it.
C17_OpenedLazily ==
    \A d \in Slots : C17_WalkerCalls(d) = 0 => opens[d] = 0

\* C17 amended: constructing the loader for a path opens no native document;
\* constructing the DataExtractor opens it, once, through load_file, before
\* any walker is called; the walkers are called on an extractor only, the
\* link and table walkers open nothing, and on a PDF every call of the text
\* walker and of the image walker opens the file once more.
C17_OpenedByExtractorConstructor ==
    \A d \in Slots :
       /\ ~extractors[d] => (opens[d] = 0 /\ C17_WalkerCalls(d) = 0)
       /\ extractors[d] =>
             /\ loaders[d].built
             /\ \E h \in handles : h.slot = d /\ h.by = "load_file" /\ h.n = 1
             /\ opens[d] = 1 + (IF d = 1
                                THEN calls[<<d, "file", "text">>] + calls[<<d, "sql", "text">>]
                                     + calls[<<d, "file", "images">>]
                                       + calls[<<d, "sql", "images">>]
                                ELSE 0)

\* C17 witness: the PDF has been walked by both sinks and was opened four
\* times, the DOCX is being walked and was opened once, and the PPTX, on
\* which no walker was called yet, is open
C17_Witness ==
    /\ done[1] = Sinks /\ opens[1] = 4
    /\ C17_WalkerCalls(2) >= 2 /\ opens[2] = 1
    /\ C17_WalkerCalls(3) = 0 /\ opens[3] = 1
    /\ \E h \in handles : h.slot = 3 /\ h.by = "load_file"

\* number of save_data calls that returned for slot d
C18_Saved(d) == Cardinality({i \in 1..Len(dbLog) : dbLog[i].slot = d /\ dbLog[i].op = "commit"})

\* row r is the i-th row one save_data call stores for slot d: the text
\* spans first, then the links, then the tables, each in extraction order
C18_IsRow(d, i, r) ==
    LET T == Len(Texts(d))
        L == Len(Links(d))
    IN  /\ r.file_name = MainPath(d)
        /\ IF i <= T
           THEN /\ r.data_type \in {"heading", "text"}
                /\ r.data_type = Texts(d)[i].data_type
                /\ r.content = Texts(d)[i].text
                /\ r.page_number = Texts(d)[i].page
           ELSE IF i <= T + L
           THEN /\ r.data_type = "link"
                /\ r.content = Links(d)[i - T].url
                /\ r.page_number = Links(d)[i - T].page
           ELSE /\ r.data_type = "table"
                /\ r.content = <<"json", Tables(d)[i - T - L].table>>
                /\ r.page_number = Tables(d)[i - T - L].page

\* C18: after k save_data calls returned for the same document,
\* extracted_data holds exactly k * (T + L + K) rows for it: k times, one
\* after the other, the T text rows, then the L link rows, then the K table
\* rows, each group in extraction order; and no step ever removes or
\* changes a row that is in the table.
C18_AppendOnly ==
    /\ [](\A d \in Slots :
            LET n == Len(Texts(d)) + Len(Links(d)) + Len(Tables(d))
                rows == SelectSeq(db.rows, LAMBDA r : r.file_name = MainPath(d))
            IN  /\ Len(rows) = C18_Saved(d) * n
                /\ \A j \in 0..(C18_Saved(d) - 1) : \A i \in 1..n :
                      j * n + i <= Len(rows) => C18_IsRow(d, i, rows[j * n + i]))
    /\ [][/\ Len(db'.rows) >= Len(db.rows)
           /\ \A i \in 1..Len(db.rows) : i <= Len(db'.rows) => db'.rows[i] = db.rows[i]]_vars

\* C18 witness: save_data returned twice for a document with text spans, a
\* link and a table, and the table holds every row twice
C18_Witness ==
    \E d \in Slots :
       /\ C18_Saved(d) = 2
       /\ Len(Texts(d)) >= 2 /\ Len(Links(d)) >= 1 /\ Len(Tables(d)) >= 1
       /\ Len(db.rows) = 2 * (Len(Texts(d)) + Len(Links(d)) + Len(Tables(d)))
       /\ db.rows[1] = db.rows[1 + Len(Texts(d)) + Len(Links(d)) + Len(Tables(d))]

=============================================================================
